---- MODULE Spec2Model ----
(***************************************************************************)
(* State migration of the vsphere_virtual_machine resource                 *)
(* (vsphere/resource_vsphere_virtual_machine_migrate.go).                  *)
(*                                                                         *)
(* A Go string is a sequence of one-character strings, so that prefix and  *)
(* suffix tests, strings.Split, strings.Join, the regular expression,      *)
(* strconv.Atoi and fmt.Sprintf("%v", int) are computed character by       *)
(* character.  An attribute map is a function from keys to values together *)
(* with a flag telling a nil map from an empty one.                        *)
(***************************************************************************)
EXTENDS Integers, Sequences, FiniteSets, TLC

VARIABLES
    os,         \* the *terraform.InstanceState handed to the dispatcher: "nil" or "obj"
    is,         \* the InstanceState object itself (mutated in place by the steps)
    devices,    \* props.Config.Hardware.Device as the endpoint reports it
    version,    \* the dispatcher's version parameter of the current frame
    pc,         \* position of the single thread of control
    err,        \* error returned by the step that has just returned
    ret,        \* what the outermost dispatcher call returned: [state, err]
    id,         \* local id of migrateVSphereVirtualMachineStateV2
    maxBus,     \* local maxBus of migrateVSphereVirtualMachineStateV2
    todo,       \* keys the running range loop still has to produce
    visited,    \* keys the running range loop has produced
    calls,      \* history: steps entered/left and external calls made, in order
    orig,       \* history: the object when the caller made the call
    entry,      \* history: the object when the current step was entered
    version0    \* history: the version the caller dispatched at

vars == <<os, is, devices, version, pc, err, ret, id, maxBus, todo, visited,
          calls, orig, entry, version0>>

----------------------------------------------------------------------------
(* Bounds of the model.                                                     *)

MaxVersion == 3      \* versions dispatched at: -1 .. MaxVersion
MaxAttrs == 3        \* attributes of an input record
MaxApply == 2        \* applications of the V0->V1 step in SpecV1
MaxRetry == 1        \* repeated dispatcher calls after a failure in SpecRetry

----------------------------------------------------------------------------
(* String literals of the source and of the inputs.                         *)

s_empty == <<>>
s_dot == <<".">>
s_disk_dot == <<"d", "i", "s", "k", ".">>
s_dot_size == <<".", "s", "i", "z", "e">>
s_dot_key == <<".", "k", "e", "y">>
s_controller_type == <<"c", "o", "n", "t", "r", "o", "l", "l", "e", "r", "_", "t", "y", "p", "e">>
s_skip_customization == <<"s", "k", "i", "p", "_", "c", "u", "s", "t", "o", "m", "i", "z", "a", "t", "i", "o", "n">>
s_enable_disk_uuid == <<"e", "n", "a", "b", "l", "e", "_", "d", "i", "s", "k", "_", "u", "u", "i", "d">>
s_false == <<"f", "a", "l", "s", "e">>
s_true == <<"t", "r", "u", "e">>
s_scsi == <<"s", "c", "s", "i">>
s_ide == <<"i", "d", "e">>
s_uuid == <<"u", "u", "i", "d">>
s_disk_count == <<"d", "i", "s", "k", ".", "#">>
s_wait_for_guest_net == <<"w", "a", "i", "t", "_", "f", "o", "r", "_", "g", "u", "e", "s", "t", "_", "n", "e", "t">>
s_minus_one == <<"-", "1">>
s_imported == <<"i", "m", "p", "o", "r", "t", "e", "d">>
s_scsi_controller_count == <<"s", "c", "s", "i", "_", "c", "o", "n", "t", "r", "o", "l", "l", "e", "r", "_", "c", "o", "u", "n", "t">>
s_force_power_off == <<"f", "o", "r", "c", "e", "_", "p", "o", "w", "e", "r", "_", "o", "f", "f">>
s_migrate_wait_timeout == <<"m", "i", "g", "r", "a", "t", "e", "_", "w", "a", "i", "t", "_", "t", "i", "m", "e", "o", "u", "t">>
s_shutdown_wait_timeout == <<"s", "h", "u", "t", "d", "o", "w", "n", "_", "w", "a", "i", "t", "_", "t", "i", "m", "e", "o", "u", "t">>
s_wait_for_guest_net_timeout == <<"w", "a", "i", "t", "_", "f", "o", "r", "_", "g", "u", "e", "s", "t", "_", "n", "e", "t", "_", "t", "i", "m", "e", "o", "u", "t">>
k_disk_0_size == <<"d", "i", "s", "k", ".", "0", ".", "s", "i", "z", "e">>
k_disk_1_size == <<"d", "i", "s", "k", ".", "1", ".", "s", "i", "z", "e">>
k_disk_0_controller_type == <<"d", "i", "s", "k", ".", "0", ".", "c", "o", "n", "t", "r", "o", "l", "l", "e", "r", "_", "t", "y", "p", "e">>
k_disk_0_1_size == <<"d", "i", "s", "k", ".", "0", ".", "1", ".", "s", "i", "z", "e">>
k_disk_0_key == <<"d", "i", "s", "k", ".", "0", ".", "k", "e", "y">>
k_disk_size == <<"d", "i", "s", "k", ".", "s", "i", "z", "e">>
v_vm_old == <<"v", "m", "-", "o", "l", "d">>
v_ABC == <<"A", "B", "C">>
v_10 == <<"1", "0">>
v_20 == <<"2", "0">>
v_2000 == <<"2", "0", "0", "0">>
v_3000 == <<"3", "0", "0", "0">>
v_neg40 == <<"-", "4", "0">>
v_neg14 == <<"-", "1", "4">>
v_5 == <<"5">>
v_0 == <<"0">>
v_x == <<"x">>
v_2001 == <<"2", "0", "0", "1">>
k_xdisk_7_keys == <<"x", "d", "i", "s", "k", ".", "7", ".", "k", "e", "y", "s">>

\* the declared defaults of the schema, as fmt.Sprintf("%v", ...) prints them
d_scsi_controller_count == <<"1">>
d_force_power_off == <<"t", "r", "u", "e">>
d_migrate_wait_timeout == <<"3", "0">>
d_shutdown_wait_timeout == <<"3">>
d_wait_for_guest_net_timeout == <<"5">>

\* `maxBus := diskCnt / 15`
DisksPerController == 15

Digits == {"0", "1", "2", "3", "4", "5", "6", "7", "8", "9"}

DigitVal(c) ==
    CASE c = "0" -> 0 [] c = "1" -> 1 [] c = "2" -> 2 [] c = "3" -> 3
      [] c = "4" -> 4 [] c = "5" -> 5 [] c = "6" -> 6 [] c = "7" -> 7
      [] c = "8" -> 8 [] c = "9" -> 9

DigitChar(n) ==
    CASE n = 0 -> "0" [] n = 1 -> "1" [] n = 2 -> "2" [] n = 3 -> "3"
      [] n = 4 -> "4" [] n = 5 -> "5" [] n = 6 -> "6" [] n = 7 -> "7"
      [] n = 8 -> "8" [] n = 9 -> "9"

----------------------------------------------------------------------------
(* The library functions the source calls, on character sequences.          *)

\* strings.HasPrefix
HasPrefix(s, p) == Len(s) >= Len(p) /\ SubSeq(s, 1, Len(p)) = p

\* strings.HasSuffix
HasSuffix(s, p) == Len(s) >= Len(p) /\ SubSeq(s, Len(s) - Len(p) + 1, Len(s)) = p

\* strings.Split(s, "."): the pieces between the dots, empty pieces included
RECURSIVE Split(_)
Split(s) ==
    IF \A i \in 1..Len(s) : s[i] # "."
    THEN <<s>>
    ELSE LET i == CHOOSE j \in 1..Len(s) :
                      s[j] = "." /\ \A h \in 1..(j - 1) : s[h] # "."
         IN  <<SubSeq(s, 1, i - 1)>> \o Split(SubSeq(s, i + 1, Len(s)))

\* strings.Join(parts, ".")
RECURSIVE Join(_)
Join(parts) ==
    IF Len(parts) = 0 THEN <<>>
    ELSE IF Len(parts) = 1 THEN parts[1]
    ELSE parts[1] \o <<".">> \o Join(Tail(parts))

\* regexp.MustCompile("disk\\.[0-9]+\\.key").MatchString(k): the expression
\* is not anchored, so it matches when some substring of k has the shape.
MatchDiskKey(k) ==
    \E i \in 1..Len(k) : \E j \in (i + 6)..Len(k) :
        /\ i + 4 <= Len(k)
        /\ SubSeq(k, i, i + 4) = s_disk_dot
        /\ \A h \in (i + 5)..(j - 1) : k[h] \in Digits
        /\ j + 3 <= Len(k)
        /\ SubSeq(k, j, j + 3) = s_dot_key

\* value of a non-empty run of decimal digits
RECURSIVE DigitsVal(_)
DigitsVal(s) ==
    IF Len(s) = 0 THEN 0
    ELSE 10 * DigitsVal(SubSeq(s, 1, Len(s) - 1)) + DigitVal(s[Len(s)])

AllDigits(s) == Len(s) > 0 /\ \A i \in 1..Len(s) : s[i] \in Digits

\* strconv.Atoi with the error dropped (`n, _ := strconv.Atoi(s)`): an
\* optional sign and decimal digits give the number, anything else gives 0.
\* The inputs of the model have at most nine digits, so neither the range
\* error of Atoi nor the narrowing int32(key) changes a value.
Atoi(s) ==
    IF Len(s) = 0 THEN 0
    ELSE IF s[1] = "-" THEN (IF AllDigits(Tail(s)) THEN 0 - DigitsVal(Tail(s)) ELSE 0)
    ELSE IF s[1] = "+" THEN (IF AllDigits(Tail(s)) THEN DigitsVal(Tail(s)) ELSE 0)
    ELSE IF AllDigits(s) THEN DigitsVal(s) ELSE 0

\* fmt.Sprintf("%v", n) for an int
RECURSIVE NatText(_)
NatText(n) ==
    IF n < 10 THEN <<DigitChar(n)>>
    ELSE NatText(n \div 10) \o <<DigitChar(n % 10)>>

Sprintf(n) == IF n < 0 THEN <<"-">> \o NatText(0 - n) ELSE NatText(n)

\* integer division rounding toward minus infinity
GoDiv_Floor(a, b) == a \div b

\* Go's integer division truncates toward zero
GoDiv(a, b) == IF a >= 0 THEN a \div b ELSE 0 - ((0 - a) \div b)

----------------------------------------------------------------------------
(* terraform.InstanceState, Go maps, the schema and the device list.        *)

\* m[k] of a Go map: the zero value "" when the key is absent (or m is nil)
Get(m, k) == IF k \in DOMAIN m THEN m[k] ELSE s_empty

\* m[k] = v of a Go map
Put(m, k, v) == [x \in (DOMAIN m) \cup {k} |-> IF x = k THEN v ELSE m[x]]

\* make(map[string]string)
EmptyMap == [x \in {} |-> s_empty]

\* Empty as a test for a nil attribute map only
Empty_NilOnly(s) == s.ID = s_empty /\ s.AttributesNil

\* (*terraform.InstanceState).Empty of the terraform library: the state has
\* neither an ID nor any attribute.
Empty(s) == s.ID = s_empty /\ Cardinality(DOMAIN s.Attributes) = 0

\* the object a nil pointer stands for in the model
NoState == [ID |-> s_empty, AttributesNil |-> TRUE, Attributes |-> EmptyMap]

NoErr == [kind |-> "nil", name |-> s_empty]

\* fmt.Sprintf("%v", rs[field].Default) of resourceVSphereVirtualMachine().Schema
SchemaDefault(field) ==
    CASE field = s_scsi_controller_count -> d_scsi_controller_count
      [] field = s_force_power_off -> d_force_power_off
      [] field = s_migrate_wait_timeout -> d_migrate_wait_timeout
      [] field = s_shutdown_wait_timeout -> d_shutdown_wait_timeout
      [] field = s_wait_for_guest_net_timeout -> d_wait_for_guest_net_timeout

\* object.VirtualDeviceList.FindByKey: the first device with the key, or nil
\* (the empty sequence here)
FindByKey(l, key) ==
    IF \E i \in 1..Len(l) : l[i].Key = key
    THEN <<l[CHOOSE i \in 1..Len(l) :
                l[i].Key = key /\ \A h \in 1..(i - 1) : l[h].Key # key]>>
    ELSE <<>>

----------------------------------------------------------------------------
(* Pieces of the three functions.                                           *)

\* the switch with the two cases exchanged
MigrateFunc_Swapped(v) ==
    CASE v = 1 -> "V1"
      [] v = 0 -> "V2"
      [] OTHER -> "none"

\* the switch with the V1->V2 step registered for every version from 1 on
MigrateFunc_NoDefault(v) ==
    CASE v >= 1 -> "V2"
      [] v = 0 -> "V1"
      [] OTHER -> "none"

\* the switch of the dispatcher: the step registered for a version
MigrateFunc(v) ==
    CASE v = 1 -> "V2"
      [] v = 0 -> "V1"
      [] OTHER -> "none"

\* the flag set to "false" whatever it held
DefaultFlag_Always(m, flag) == Put(m, flag, s_false)

\* the flag defaulted when unset and cleared when set
DefaultFlag_Clears(m, flag) ==
    IF Get(m, flag) = s_empty THEN Put(m, flag, s_false) ELSE Put(m, flag, s_empty)

\* `if is.Attributes[flag] == "" { is.Attributes[flag] = "false" }`
DefaultFlag(m, flag) ==
    IF Get(m, flag) = s_empty THEN Put(m, flag, s_false) ELSE m

\* the loop body without the test of the number of components
V1RangeBody_AnyLength(m, k) ==
    IF HasPrefix(k, s_disk_dot) /\ HasSuffix(k, s_dot_size)
    THEN LET diskParts == Split(k)
             s == Join(<<diskParts[1], diskParts[2], s_controller_type>>)
         IN  IF s \notin DOMAIN m THEN Put(m, s, s_scsi) ELSE m
    ELSE m

\* the loop body setting the controller type whether or not it is present
V1RangeBody_Overwrite(m, k) ==
    IF HasPrefix(k, s_disk_dot) /\ HasSuffix(k, s_dot_size)
    THEN LET diskParts == Split(k)
         IN  IF Len(diskParts) # 3 THEN m
             ELSE Put(m, Join(<<diskParts[1], diskParts[2], s_controller_type>>), s_scsi)
    ELSE m

\* body of the range loop of the V0->V1 step for the key k
V1RangeBody(m, k) ==
    IF HasPrefix(k, s_disk_dot) /\ HasSuffix(k, s_dot_size)
    THEN LET diskParts == Split(k)
         IN  IF Len(diskParts) # 3 THEN m
             ELSE LET s == Join(<<diskParts[1], diskParts[2], s_controller_type>>)
                  IN  IF s \notin DOMAIN m THEN Put(m, s, s_scsi) ELSE m
    ELSE m

\* body of the range loop of the V1->V2 step for the entry k, v: the new maxBus
V2RangeBody(bus, l, k, v) ==
    IF ~MatchDiskKey(k) THEN bus
    ELSE LET key == Atoi(v)
         IN  IF key < 1 THEN bus
             ELSE LET device == FindByKey(l, key)
                  IN  IF device = <<>> THEN bus
                      ELSE LET ctlr == FindByKey(l, device[1].ControllerKey)
                           IN  IF ctlr = <<>> THEN bus
                               ELSE IF ctlr[1].SCSI /\ ctlr[1].BusNumber > bus
                                    THEN ctlr[1].BusNumber
                                    ELSE bus

\* the timeout with an unset legacy attribute taken for "false"
GuestNetTimeout_UnsetIsFalse(m) ==
    IF Get(m, s_wait_for_guest_net) \in {s_false, s_empty}
    THEN s_minus_one
    ELSE SchemaDefault(s_wait_for_guest_net_timeout)

\* the guest-network timeout chosen from the legacy attribute
GuestNetTimeout(m) ==
    IF Get(m, s_wait_for_guest_net) = s_false
    THEN s_minus_one
    ELSE SchemaDefault(s_wait_for_guest_net_timeout)

\* the new attribute map without the last assignment of scsi_controller_count
NewAttributes_DefaultWins(bus, guestNetTimeout) ==
    LET a1 == Put(EmptyMap, s_imported, s_true)
        a2 == Put(a1, s_scsi_controller_count, SchemaDefault(s_scsi_controller_count))
        a3 == Put(a2, s_force_power_off, SchemaDefault(s_force_power_off))
        a4 == Put(a3, s_migrate_wait_timeout, SchemaDefault(s_migrate_wait_timeout))
        a5 == Put(a4, s_shutdown_wait_timeout, SchemaDefault(s_shutdown_wait_timeout))
    IN  Put(a5, s_wait_for_guest_net_timeout, guestNetTimeout)

\* the attribute map the V1->V2 step builds, assignment by assignment
NewAttributes(bus, guestNetTimeout) ==
    LET a1 == Put(EmptyMap, s_imported, s_true)
        a2 == Put(a1, s_scsi_controller_count, SchemaDefault(s_scsi_controller_count))
        a3 == Put(a2, s_force_power_off, SchemaDefault(s_force_power_off))
        a4 == Put(a3, s_migrate_wait_timeout, SchemaDefault(s_migrate_wait_timeout))
        a5 == Put(a4, s_shutdown_wait_timeout, SchemaDefault(s_shutdown_wait_timeout))
        a6 == Put(a5, s_wait_for_guest_net_timeout, guestNetTimeout)
    IN  Put(a6, s_scsi_controller_count, Sprintf(bus + 1))

----------------------------------------------------------------------------
(* The actions.                                                             *)

\* the outermost dispatcher call returns (state, e)
Return(state, e) ==
    /\ ret' = [state |-> state, err |-> e]
    /\ pc' = "done"

\* the dispatcher without its two guards: the switch comes first
resourceVSphereVirtualMachineMigrateState_NoGuards ==
    /\ pc = "dispatch"
    /\ IF MigrateFunc(version) = "none" THEN Return(os, NoErr)
       ELSE pc' = MigrateFunc(version) /\ UNCHANGED ret
    /\ UNCHANGED <<os, is, devices, version, err, id, maxBus, todo, visited,
                   calls, orig, entry, version0>>

\* resourceVSphereVirtualMachineMigrateState up to the call of the step
resourceVSphereVirtualMachineMigrateState ==
    /\ pc = "dispatch"
    /\ IF os = "nil" THEN Return("nil", NoErr)
       ELSE IF Empty(is) THEN Return("obj", NoErr)
       ELSE IF MigrateFunc(version) = "none" THEN Return("obj", NoErr)
       ELSE pc' = MigrateFunc(version) /\ UNCHANGED ret
    /\ UNCHANGED <<os, is, devices, version, err, id, maxBus, todo, visited,
                   calls, orig, entry, version0>>

\* the dispatcher incrementing the version before it tests the error
MigrateStateStepReturned_AdvanceFirst ==
    /\ pc = "returned"
    /\ version' = version + 1
    /\ IF err # NoErr
       THEN Return("nil", err)
       ELSE pc' = "dispatch" /\ UNCHANGED ret
    /\ UNCHANGED <<os, is, devices, err, id, maxBus, todo, visited,
                   calls, orig, entry, version0>>

\* the dispatcher once the step has returned: propagate the error, or
\* increment the version and call itself
MigrateStateStepReturned ==
    /\ pc = "returned"
    /\ IF err # NoErr
       THEN Return("nil", err) /\ UNCHANGED version
       ELSE version' = version + 1 /\ pc' = "dispatch" /\ UNCHANGED ret
    /\ UNCHANGED <<os, is, devices, err, id, maxBus, todo, visited,
                   calls, orig, entry, version0>>

\* migrateVSphereVirtualMachineStateV1 up to the start of its range loop
migrateVSphereVirtualMachineStateV1 ==
    /\ pc = "V1"
    /\ entry' = is
    /\ IF Empty(is) \/ is.AttributesNil
       THEN /\ pc' = "returned"
            /\ err' = NoErr
            /\ calls' = calls \o <<"V1", "V1.return">>
            /\ UNCHANGED <<is, todo, visited>>
       ELSE LET m == DefaultFlag(DefaultFlag(is.Attributes, s_skip_customization),
                                 s_enable_disk_uuid)
            IN  /\ is' = [is EXCEPT !.Attributes = m]
                /\ todo' = DOMAIN m
                /\ visited' = {}
                /\ pc' = "V1.range"
                /\ calls' = Append(calls, "V1")
                /\ UNCHANGED err
    /\ UNCHANGED <<os, devices, version, ret, id, maxBus, orig, version0>>

\* one iteration of `for k := range is.Attributes` of the V0->V1 step.  The
\* order is unspecified, and an entry inserted during the loop may be
\* produced or skipped.
V1Range ==
    /\ pc = "V1.range"
    /\ \E k \in (DOMAIN is.Attributes) \ visited :
          /\ is' = [is EXCEPT !.Attributes = V1RangeBody(is.Attributes, k)]
          /\ visited' = visited \cup {k}
          /\ todo' = todo \ {k}
    /\ UNCHANGED <<os, devices, version, pc, err, ret, id, maxBus,
                   calls, orig, entry, version0>>

\* the loop of the V0->V1 step ends and the step returns nil
V1Return ==
    /\ pc = "V1.range"
    /\ todo = {}
    /\ pc' = "returned"
    /\ err' = NoErr
    /\ calls' = Append(calls, "V1.return")
    /\ UNCHANGED <<os, is, devices, version, ret, id, maxBus, todo, visited,
                   orig, entry, version0>>

\* the V1->V2 step assigning is.ID as soon as it has read the uuid
migrateVSphereVirtualMachineStateV2_EarlyID ==
    /\ pc = "V2"
    /\ entry' = is
    /\ id' = Get(is.Attributes, s_uuid)
    /\ is' = [is EXCEPT !.ID = Get(is.Attributes, s_uuid)]
    /\ IF Get(is.Attributes, s_uuid) = s_empty
       THEN /\ pc' = "returned"
            /\ err' = [kind |-> "no UUID", name |-> is.ID]
            /\ calls' = calls \o <<"V2", "V2.return">>
       ELSE /\ pc' = "V2.FromUUID"
            /\ calls' = Append(calls, "V2")
            /\ UNCHANGED err
    /\ UNCHANGED <<os, devices, version, ret, maxBus, todo, visited,
                   orig, version0>>

\* the V1->V2 step without the test of the uuid before the lookup
migrateVSphereVirtualMachineStateV2_NoUUIDTest ==
    /\ pc = "V2"
    /\ entry' = is
    /\ id' = Get(is.Attributes, s_uuid)
    /\ pc' = "V2.FromUUID"
    /\ calls' = Append(calls, "V2")
    /\ UNCHANGED <<os, is, devices, version, err, ret, maxBus, todo, visited,
                   orig, version0>>

\* migrateVSphereVirtualMachineStateV2 up to the call of FromUUID
migrateVSphereVirtualMachineStateV2 ==
    /\ pc = "V2"
    /\ entry' = is
    /\ id' = Get(is.Attributes, s_uuid)
    /\ IF Get(is.Attributes, s_uuid) = s_empty
       THEN /\ pc' = "returned"
            /\ err' = [kind |-> "no UUID", name |-> is.ID]
            /\ calls' = calls \o <<"V2", "V2.return">>
       ELSE /\ pc' = "V2.FromUUID"
            /\ calls' = Append(calls, "V2")
            /\ UNCHANGED err
    /\ UNCHANGED <<os, is, devices, version, ret, maxBus, todo, visited,
                   orig, version0>>

\* the lookup with the attribute map cleared when it fails
FromUUID_ResetOnError ==
    /\ pc = "V2.FromUUID"
    /\ \E ok \in BOOLEAN :
          IF ok
          THEN /\ pc' = "V2.Properties"
               /\ calls' = Append(calls, "FromUUID")
               /\ UNCHANGED <<is, err>>
          ELSE /\ pc' = "returned"
               /\ is' = [is EXCEPT !.Attributes = EmptyMap, !.AttributesNil = FALSE]
               /\ err' = [kind |-> "error fetching virtual machine", name |-> s_empty]
               /\ calls' = calls \o <<"FromUUID", "V2.return">>
    /\ UNCHANGED <<os, devices, version, ret, id, maxBus, todo, visited,
                   orig, entry, version0>>

\* virtualmachine.FromUUID(client, id): succeeds or fails
FromUUID ==
    /\ pc = "V2.FromUUID"
    /\ \E ok \in BOOLEAN :
          IF ok
          THEN /\ pc' = "V2.Properties"
               /\ calls' = Append(calls, "FromUUID")
               /\ UNCHANGED err
          ELSE /\ pc' = "returned"
               /\ err' = [kind |-> "error fetching virtual machine", name |-> s_empty]
               /\ calls' = calls \o <<"FromUUID", "V2.return">>
    /\ UNCHANGED <<os, is, devices, version, ret, id, maxBus, todo, visited,
                   orig, entry, version0>>

\* the configuration fetched a second time when the first fetch fails
Properties_Retry ==
    /\ pc = "V2.Properties"
    /\ \E ok \in BOOLEAN :
          IF ok
          THEN LET diskCnt == Atoi(Get(is.Attributes, s_disk_count))
               IN  /\ maxBus' = GoDiv(diskCnt, DisksPerController)
                   /\ todo' = DOMAIN is.Attributes
                   /\ visited' = {}
                   /\ pc' = "V2.range"
                   /\ calls' = Append(calls, "Properties")
                   /\ UNCHANGED err
          ELSE IF \A i \in 1..Len(calls) : calls[i] # "Properties"
          THEN /\ calls' = Append(calls, "Properties")
               /\ UNCHANGED <<pc, err, maxBus, todo, visited>>
          ELSE /\ pc' = "returned"
               /\ err' = [kind |-> "error fetching virtual machine properties",
                          name |-> s_empty]
               /\ calls' = calls \o <<"Properties", "V2.return">>
               /\ UNCHANGED <<maxBus, todo, visited>>
    /\ UNCHANGED <<os, is, devices, version, ret, id, orig, entry, version0>>

\* virtualmachine.Properties(vm): succeeds or fails; on success the step
\* sets diskCnt, maxBus and l and starts its range loop
Properties ==
    /\ pc = "V2.Properties"
    /\ \E ok \in BOOLEAN :
          IF ok
          THEN LET diskCnt == Atoi(Get(is.Attributes, s_disk_count))
               IN  /\ maxBus' = GoDiv(diskCnt, DisksPerController)
                   /\ todo' = DOMAIN is.Attributes
                   /\ visited' = {}
                   /\ pc' = "V2.range"
                   /\ calls' = Append(calls, "Properties")
                   /\ UNCHANGED err
          ELSE /\ pc' = "returned"
               /\ err' = [kind |-> "error fetching virtual machine properties",
                          name |-> s_empty]
               /\ calls' = calls \o <<"Properties", "V2.return">>
               /\ UNCHANGED <<maxBus, todo, visited>>
    /\ UNCHANGED <<os, is, devices, version, ret, id, orig, entry, version0>>

\* one iteration of `for k, v := range is.Attributes` of the V1->V2 step
V2Range ==
    /\ pc = "V2.range"
    /\ \E k \in todo :
          /\ maxBus' = V2RangeBody(maxBus, devices, k, is.Attributes[k])
          /\ visited' = visited \cup {k}
          /\ todo' = todo \ {k}
    /\ UNCHANGED <<os, is, devices, version, pc, err, ret, id,
                   calls, orig, entry, version0>>

\* the attribute map replaced before the disk import is attempted
DiskImportOperation_EarlyReset ==
    /\ pc = "V2.range"
    /\ todo = {}
    /\ is' = [is EXCEPT !.Attributes = Put(EmptyMap, s_wait_for_guest_net,
                                            Get(is.Attributes, s_wait_for_guest_net)),
                         !.AttributesNil = FALSE]
    /\ \E ok \in BOOLEAN :
          IF ok
          THEN /\ pc' = "V2.rebuild"
               /\ calls' = Append(calls, "DiskImportOperation")
               /\ UNCHANGED err
          ELSE /\ pc' = "returned"
               /\ err' = [kind |-> "DiskImportOperation", name |-> s_empty]
               /\ calls' = calls \o <<"DiskImportOperation", "V2.return">>
    /\ UNCHANGED <<os, devices, version, ret, id, maxBus, todo, visited,
                   orig, entry, version0>>

\* the loop ends; d.Set("scsi_controller_count", maxBus+1) on a fresh
\* ResourceData and virtualdevice.DiskImportOperation, which succeeds or fails
DiskImportOperation ==
    /\ pc = "V2.range"
    /\ todo = {}
    /\ \E ok \in BOOLEAN :
          IF ok
          THEN /\ pc' = "V2.rebuild"
               /\ calls' = Append(calls, "DiskImportOperation")
               /\ UNCHANGED err
          ELSE /\ pc' = "returned"
               /\ err' = [kind |-> "DiskImportOperation", name |-> s_empty]
               /\ calls' = calls \o <<"DiskImportOperation", "V2.return">>
    /\ UNCHANGED <<os, is, devices, version, ret, id, maxBus, todo, visited,
                   orig, entry, version0>>

\* the rest of the V1->V2 step without the assignment of the ID
V2Rebuild_KeepID ==
    /\ pc = "V2.rebuild"
    /\ is' = [ID |-> is.ID,
              AttributesNil |-> FALSE,
              Attributes |-> NewAttributes(maxBus, GuestNetTimeout(is.Attributes))]
    /\ pc' = "returned"
    /\ err' = NoErr
    /\ calls' = Append(calls, "V2.return")
    /\ UNCHANGED <<os, devices, version, ret, id, maxBus, todo, visited,
                   orig, entry, version0>>

\* the rest of the V1->V2 step: the timeout, the new map, the new ID
V2Rebuild ==
    /\ pc = "V2.rebuild"
    /\ is' = [ID |-> id,
              AttributesNil |-> FALSE,
              Attributes |-> NewAttributes(maxBus, GuestNetTimeout(is.Attributes))]
    /\ pc' = "returned"
    /\ err' = NoErr
    /\ calls' = Append(calls, "V2.return")
    /\ UNCHANGED <<os, devices, version, ret, id, maxBus, todo, visited,
                   orig, entry, version0>>

----------------------------------------------------------------------------
(* Inputs.                                                                  *)

\* the maps with at most MaxAttrs of the keys, each with one of its values
AttrMaps(Keys, Values(_)) ==
    UNION {{m \in [S -> UNION {Values(k) : k \in S}] : \A k \in S : m[k] \in Values(k)} :
           S \in {T \in SUBSET Keys : Cardinality(T) <= MaxAttrs}}

\* the states with one of the IDs and either a nil map or one of the maps
States(IDs, Maps) ==
    {[ID |-> i, AttributesNil |-> FALSE, Attributes |-> m] : i \in IDs, m \in Maps}
        \cup {[ID |-> i, AttributesNil |-> TRUE, Attributes |-> EmptyMap] : i \in IDs}

IDs == {s_empty, v_vm_old}

\* attributes of the records handed to the dispatcher
DispatchKeys ==
    {s_skip_customization, k_disk_0_size, s_uuid, s_disk_count, k_disk_0_key,
     s_wait_for_guest_net, k_xdisk_7_keys}

DispatchValues(k) ==
    CASE k = s_skip_customization -> {s_true}
      [] k = k_disk_0_size -> {v_10}
      [] k = s_uuid -> {s_empty, v_ABC}
      [] k = s_disk_count -> {v_20, v_5, v_neg14, v_neg40, v_x}
      [] k = k_disk_0_key -> {v_2000, v_3000, v_2001, v_0}
      [] k = s_wait_for_guest_net -> {s_false, s_true, s_empty}
      [] k = k_xdisk_7_keys -> {v_2000}

\* attributes of the records handed to the V0->V1 step directly
V1Keys ==
    {s_skip_customization, s_enable_disk_uuid, k_disk_0_size, k_disk_0_controller_type,
     k_disk_1_size, k_disk_0_1_size, k_disk_size, s_uuid}

V1Values(k) ==
    CASE k = s_skip_customization -> {s_empty, s_true}
      [] k = s_enable_disk_uuid -> {s_true}
      [] k = k_disk_0_controller_type -> {s_empty, s_ide}
      [] k = s_uuid -> {v_ABC}
      [] OTHER -> {v_10}

\* a machine with a PCI controller, a SCSI controller on bus 3 with a disk,
\* an IDE controller on bus 1 with a disk, and a disk whose controller is
\* not in the list
Machine ==
    << [Key |-> 100,  ControllerKey |-> 0,    SCSI |-> FALSE, BusNumber |-> 0],
       [Key |-> 1003, ControllerKey |-> 100,  SCSI |-> TRUE,  BusNumber |-> 3],
       [Key |-> 201,  ControllerKey |-> 100,  SCSI |-> FALSE, BusNumber |-> 1],
       [Key |-> 2000, ControllerKey |-> 1003, SCSI |-> FALSE, BusNumber |-> 0],
       [Key |-> 3000, ControllerKey |-> 201,  SCSI |-> FALSE, BusNumber |-> 0],
       [Key |-> 2001, ControllerKey |-> 1009, SCSI |-> FALSE, BusNumber |-> 0] >>

DeviceLists == {<<>>, Machine}

----------------------------------------------------------------------------
(* Specifications.                                                          *)

\* a caller hands a record (or nil) and a version to the dispatcher
Init ==
    /\ os \in {"nil", "obj"}
    /\ is \in IF os = "nil" THEN {NoState}
              ELSE States(IDs, AttrMaps(DispatchKeys, DispatchValues))
    /\ devices \in DeviceLists
    /\ version \in (0 - 1)..MaxVersion
    /\ pc = "dispatch"
    /\ err = NoErr
    /\ ret = [state |-> "nil", err |-> NoErr]
    /\ id = s_empty
    /\ maxBus = 0
    /\ todo = {}
    /\ visited = {}
    /\ calls = <<>>
    /\ orig = is
    /\ entry = is
    /\ version0 = version

Next ==
    \/ resourceVSphereVirtualMachineMigrateState
    \/ MigrateStateStepReturned
    \/ migrateVSphereVirtualMachineStateV1
    \/ V1Range
    \/ V1Return
    \/ migrateVSphereVirtualMachineStateV2
    \/ FromUUID
    \/ Properties
    \/ V2Range
    \/ DiskImportOperation
    \/ V2Rebuild

Spec == Init /\ [][Next]_vars

\* number of times x occurs in the history h
Count(h, x) == Cardinality({i \in 1..Len(h) : h[i] = x})

\* a caller applies the V0->V1 step to a record, MaxApply times in a row
InitV1 ==
    /\ os = "obj"
    /\ is \in States(IDs, AttrMaps(V1Keys, V1Values))
    /\ devices = <<>>
    /\ version = 0
    /\ pc = "V1"
    /\ err = NoErr
    /\ ret = [state |-> "nil", err |-> NoErr]
    /\ id = s_empty
    /\ maxBus = 0
    /\ todo = {}
    /\ visited = {}
    /\ calls = <<>>
    /\ orig = is
    /\ entry = is
    /\ version0 = version

ApplyV1Again ==
    /\ pc = "returned"
    /\ Count(calls, "V1") < MaxApply
    /\ pc' = "V1"
    /\ UNCHANGED <<os, is, devices, version, err, ret, id, maxBus, todo, visited,
                   calls, orig, entry, version0>>

NextV1 ==
    \/ migrateVSphereVirtualMachineStateV1
    \/ V1Range
    \/ V1Return
    \/ ApplyV1Again

SpecV1 == InitV1 /\ [][NextV1]_vars

\* after a failed call the caller calls the dispatcher again, at the same
\* version and with the same object as the failed call left it
Retry ==
    /\ pc = "done"
    /\ ret.err # NoErr
    /\ Count(calls, "retry") < MaxRetry
    /\ pc' = "dispatch"
    /\ version' = version0
    /\ err' = NoErr
    /\ ret' = [state |-> "nil", err |-> NoErr]
    /\ calls' = Append(calls, "retry")
    /\ UNCHANGED <<os, is, devices, id, maxBus, todo, visited, orig, entry, version0>>

NextRetry ==
    \/ Next
    \/ Retry

SpecRetry == Init /\ [][NextRetry]_vars

----------------------------------------------------------------------------
(* Properties of the dispatcher, checked under Spec.                        *)

\* the step events of the history, in order
StepEvents ==
    SelectSeq(calls, LAMBDA x : x \in {"V1", "V1.return", "V2", "V2.return"})

\* the external calls of the history, in order
ExternalCalls ==
    SelectSeq(calls, LAMBDA x : x \in {"FromUUID", "Properties", "DiskImportOperation"})

StepsEntered == Count(calls, "V1") + Count(calls, "V2")

StepsReturned == Count(calls, "V1.return") + Count(calls, "V2.return")

IsPrefix(s, t) == Len(s) <= Len(t) /\ s = SubSeq(t, 1, Len(s))

\* the V1->V2 step was the last to return, and it returned nil
V2Succeeded ==
    /\ pc \in {"returned", "dispatch", "done"}
    /\ Len(calls) > 0
    /\ calls[Len(calls)] = "V2.return"
    /\ err = NoErr

\* C1: when the step the dispatcher selected returns an error, the
\* dispatcher returns that very error and no record, has entered no step
\* after the failing one, and has left the version at the failing step's
\* version: the version has advanced once per step that returned nil.
C1_StepErrorPropagated ==
    (pc = "done" /\ err # NoErr) =>
        /\ ret = [state |-> "nil", err |-> err]
        /\ StepsEntered = StepsReturned
        /\ calls[Len(calls)] \in {"V1.return", "V2.return"}
        /\ version = version0 + StepsReturned - 1
        /\ MigrateFunc(version) # "none"

C1_Witness ==
    /\ pc = "done"
    /\ version0 = 1
    /\ err.kind = "error fetching virtual machine"
    /\ ret.err = err

\* C2: the walk is ordered.  Dispatched at version 0 the step events are a
\* prefix of V1, V1.return, V2, V2.return and dispatched at version 1 a
\* prefix of V2, V2.return; when the dispatcher returns without error for a
\* non-empty record the whole sequence has run and the version is 2; the
\* version has advanced by one for each step whose nil return the dispatcher
\* has seen.
C2_OrderedWalk ==
    /\ version0 = 0 => IsPrefix(StepEvents, <<"V1", "V1.return", "V2", "V2.return">>)
    /\ version0 = 1 => IsPrefix(StepEvents, <<"V2", "V2.return">>)
    /\ version0 \notin {0, 1} => StepEvents = <<>>
    /\ version = version0 + StepsReturned
                            - (IF pc = "returned" \/ err # NoErr THEN 1 ELSE 0)
    /\ (pc = "done" /\ ret.err = NoErr /\ os = "obj" /\ ~Empty(orig)
          /\ version0 \in {0, 1}) =>
           /\ version = 2
           /\ Count(calls, "V1") = 1 - version0
           /\ Count(calls, "V1.return") = 1 - version0
           /\ Count(calls, "V2") = 1
           /\ Count(calls, "V2.return") = 1

C2_Witness ==
    /\ pc = "done"
    /\ ret.err = NoErr
    /\ version0 = 0
    /\ version = 2
    /\ StepEvents = <<"V1", "V1.return", "V2", "V2.return">>

\* C3 as claimed: whenever the dispatcher call ends in failure the caller's
\* record is as it was before the call.
C3_Claimed_RecordAsBeforeCall ==
    (pc = "done" /\ ret.err # NoErr) => is = orig

\* C3 as amended: when the dispatcher call ends in failure it returns no
\* record, the failing V1->V2 step has changed nothing, and the caller's
\* record is as it was before the call if the call was dispatched at
\* version 1 and as the completed V0->V1 step left it (same ID, no key
\* removed) if dispatched at version 0.
C3_FailureKeepsCompletedSteps ==
    (pc = "done" /\ ret.err # NoErr) =>
        /\ ret.state = "nil"
        /\ is = entry
        /\ is.ID = orig.ID
        /\ version0 = 1 => is = orig /\ StepEvents = <<"V2", "V2.return">>
        /\ version0 = 0 =>
               /\ StepEvents = <<"V1", "V1.return", "V2", "V2.return">>
               /\ DOMAIN orig.Attributes \subseteq DOMAIN is.Attributes

C3_Witness ==
    /\ pc = "done"
    /\ ret.err # NoErr
    /\ version0 = 0
    /\ is # orig
    /\ "FromUUID" \in {calls[i] : i \in 1..Len(calls)}

\* C4: whenever the V1->V2 step returns an error, whatever the cause, the
\* record's ID and attribute map are what they were when the step was
\* entered, and the step was entered at version 1.
C4_FailedV2LeavesRecord ==
    (pc = "returned" /\ err # NoErr) =>
        /\ calls[Len(calls)] = "V2.return"
        /\ err.kind \in {"no UUID", "error fetching virtual machine",
                         "error fetching virtual machine properties",
                         "DiskImportOperation"}
        /\ is = entry
        /\ version = 1

C4_Witness ==
    /\ pc = "returned"
    /\ err.kind = "DiskImportOperation"
    /\ DOMAIN is.Attributes # {}
    /\ is = entry

\* C5: dispatched at a version other than 0 and 1 the dispatcher returns
\* the record it was given (nil for nil), unchanged and without error, and
\* neither a step nor an external call has run.
C5_FixedPoint ==
    (pc = "done" /\ version0 \notin {0, 1}) =>
        /\ ret = [state |-> os, err |-> NoErr]
        /\ is = orig
        /\ calls = <<>>
        /\ version = version0

C5_Witness ==
    /\ pc = "done"
    /\ version0 = 2
    /\ os = "obj"
    /\ Get(orig.Attributes, s_uuid) = v_ABC
    /\ ret.state = "obj"

RebuiltKeys ==
    {s_imported, s_scsi_controller_count, s_force_power_off, s_migrate_wait_timeout,
     s_shutdown_wait_timeout, s_wait_for_guest_net_timeout}

\* C7: after a successful V1->V2 step the attribute map has exactly the six
\* keys of the rebuilt state, imported is "true", the three plain defaults
\* are the schema's, scsi_controller_count is the decimal text of
\* maxBus + 1 and reads back as that number, no attribute of the old map
\* survives, and the ID is the old uuid attribute.
C7_RebuiltState ==
    V2Succeeded =>
        /\ ~is.AttributesNil
        /\ DOMAIN is.Attributes = RebuiltKeys
        /\ is.Attributes[s_imported] = s_true
        /\ is.Attributes[s_force_power_off] = SchemaDefault(s_force_power_off)
        /\ is.Attributes[s_migrate_wait_timeout] = SchemaDefault(s_migrate_wait_timeout)
        /\ is.Attributes[s_shutdown_wait_timeout] = SchemaDefault(s_shutdown_wait_timeout)
        /\ is.Attributes[s_scsi_controller_count] = Sprintf(maxBus + 1)
        /\ Atoi(is.Attributes[s_scsi_controller_count]) = maxBus + 1
        /\ (DOMAIN entry.Attributes) \cap (DOMAIN is.Attributes) = {}
        /\ is.ID = entry.Attributes[s_uuid]

C7_Witness ==
    /\ V2Succeeded
    /\ pc = "done"
    /\ k_disk_0_key \in DOMAIN entry.Attributes
    /\ is.Attributes[s_scsi_controller_count] = <<"4">>
    /\ is.Attributes[s_scsi_controller_count] # SchemaDefault(s_scsi_controller_count)
    /\ is.ID = v_ABC
    /\ entry.ID = v_vm_old

----------------------------------------------------------------------------
(* Properties of the V0->V1 step, checked under SpecV1.                     *)

Flags == {s_skip_customization, s_enable_disk_uuid}

\* the V0->V1 step has returned
V1Returned == pc = "returned" /\ calls[Len(calls)] = "V1.return"

Indexes == {<<"0">>, <<"1">>, <<>>, <<"0", "0">>}

DiskKey(i, field) == s_disk_dot \o i \o s_dot \o field

\* C9: after the step, for every index i whose disk.<i>.size existed
\* before, disk.<i>.controller_type exists, is "scsi" if it was absent and
\* keeps its value if it was present; the keys the step has created are
\* flags or controller_type keys of such indexes; this holds for every
\* order in which the range loop produces the keys.
C9_ControllerTypeBackfill ==
    V1Returned =>
        /\ \A i \in Indexes :
               DiskKey(i, <<"s", "i", "z", "e">>) \in DOMAIN entry.Attributes =>
                   LET c == DiskKey(i, s_controller_type)
                   IN  /\ c \in DOMAIN is.Attributes
                       /\ is.Attributes[c] =
                              IF c \in DOMAIN entry.Attributes
                              THEN entry.Attributes[c] ELSE s_scsi
        /\ (DOMAIN is.Attributes) \ (DOMAIN entry.Attributes) \subseteq
               Flags \cup {DiskKey(i, s_controller_type) : i \in
                              {j \in Indexes : DiskKey(j, <<"s", "i", "z", "e">>)
                                                  \in DOMAIN entry.Attributes}}

C9_Witness ==
    /\ V1Returned
    /\ k_disk_0_1_size \in DOMAIN entry.Attributes
    /\ k_disk_1_size \in DOMAIN entry.Attributes
    /\ k_disk_0_size \notin DOMAIN entry.Attributes
    /\ DiskKey(<<"1">>, s_controller_type) \notin DOMAIN entry.Attributes
    /\ is.Attributes[DiskKey(<<"1">>, s_controller_type)] = s_scsi

\* C10: a second application of the step leaves the ID and the attribute
\* map exactly as the first application left them.
C10_Idempotent ==
    (V1Returned /\ Count(calls, "V1") >= 2) => is = entry

C10_Witness ==
    /\ V1Returned
    /\ Count(calls, "V1") = 2
    /\ is = entry
    /\ is # orig
    /\ k_disk_0_size \in DOMAIN orig.Attributes

----------------------------------------------------------------------------
(* Further properties of the dispatcher and of the V1->V2 step (Spec).      *)

\* the V1->V2 step has been entered; entry is the record it was entered with
V2Entered == Count(calls, "V2") > 0

\* C11: when the V1->V2 step is entered with an empty or absent uuid
\* attribute, it returns the missing-identifier error naming the record's
\* ID without any external call, and the dispatcher call returns that error
\* and no record with the version still 1.
C11_MissingUUID ==
    (V2Entered /\ Get(entry.Attributes, s_uuid) = s_empty) =>
        /\ pc \in {"returned", "done"}
        /\ err = [kind |-> "no UUID", name |-> entry.ID]
        /\ ExternalCalls = <<>>
        /\ is = entry
        /\ version = 1
        /\ pc = "done" => ret = [state |-> "nil", err |-> err]

C11_Witness ==
    /\ pc = "done"
    /\ version0 = 0
    /\ V2Entered
    /\ s_uuid \in DOMAIN entry.Attributes
    /\ entry.Attributes[s_uuid] = s_empty
    /\ entry.ID = v_vm_old
    /\ ret.err = [kind |-> "no UUID", name |-> v_vm_old]

\* the errors that come from an external collaborator
ExternalErrors ==
    {"error fetching virtual machine", "error fetching virtual machine properties",
     "DiskImportOperation"}

\* s is the decimal text of an integer
IsIntText(s) ==
    \/ AllDigits(s)
    \/ Len(s) > 1 /\ s[1] = "-" /\ AllDigits(Tail(s))

\* C12: for a record with a non-empty ID and a non-empty uuid attribute
\* dispatched at version 0, when no external collaborator has failed the
\* dispatcher returns the record without error after both steps, in order;
\* its ID is the original uuid attribute, imported is "true" and
\* scsi_controller_count is present and the decimal text of an integer.
C12_EndToEnd ==
    (pc = "done" /\ os = "obj" /\ version0 = 0 /\ orig.ID # s_empty
       /\ Get(orig.Attributes, s_uuid) # s_empty /\ err.kind \notin ExternalErrors) =>
        /\ ret = [state |-> "obj", err |-> NoErr]
        /\ StepEvents = <<"V1", "V1.return", "V2", "V2.return">>
        /\ version = 2
        /\ is.ID = orig.Attributes[s_uuid]
        /\ Get(is.Attributes, s_imported) = s_true
        /\ s_scsi_controller_count \in DOMAIN is.Attributes
        /\ IsIntText(is.Attributes[s_scsi_controller_count])

C12_Witness ==
    /\ pc = "done"
    /\ version0 = 0
    /\ ret = [state |-> "obj", err |-> NoErr]
    /\ orig.ID = v_vm_old
    /\ DOMAIN orig.Attributes = {k_disk_0_size, s_uuid, s_disk_count}
    /\ orig.Attributes[s_uuid] = v_ABC
    /\ is.ID = v_ABC
    /\ is.Attributes[s_imported] = s_true
    /\ IsIntText(is.Attributes[s_scsi_controller_count])

\* C13: for a nil record the dispatcher returns nil and no error at every
\* version, and neither a step nor an external call has run.
C13_NilState ==
    (pc = "done" /\ os = "nil") =>
        /\ ret = [state |-> "nil", err |-> NoErr]
        /\ calls = <<>>
        /\ version = version0
        /\ is = orig

C13_Witness ==
    /\ pc = "done"
    /\ os = "nil"
    /\ version0 = 0
    /\ ret = [state |-> "nil", err |-> NoErr]

\* the largest element of a non-empty set of integers
Max(S) == CHOOSE x \in S : \A y \in S : y <= x

\* k is a key disk.<n>.key, n a run of digits
IsDiskKeyAttr(k) ==
    /\ HasPrefix(k, s_disk_dot)
    /\ HasSuffix(k, s_dot_key)
    /\ Len(k) > Len(s_disk_dot) + Len(s_dot_key)
    /\ \A h \in (Len(s_disk_dot) + 1)..(Len(k) - Len(s_dot_key)) : k[h] \in Digits

\* the bus numbers of the SCSI controllers of l reached from a disk.<n>.key
\* attribute of m whose value is a positive key of a device of l
ReachedBuses(m, l) ==
    {c.BusNumber : c \in
        {l[j] : j \in {h \in 1..Len(l) :
            /\ l[h].SCSI
            /\ FindByKey(l, l[h].Key) = <<l[h]>>
            /\ \E k \in DOMAIN m : \E i \in 1..Len(l) :
                  /\ IsDiskKeyAttr(k)
                  /\ Atoi(m[k]) >= 1
                  /\ l[i].Key = Atoi(m[k])
                  /\ FindByKey(l, l[i].Key) = <<l[i]>>
                  /\ l[i].ControllerKey = l[h].Key}}}

\* DerivedBusCount as the claim defines it
DerivedBusCount(m, l) ==
    Max({GoDiv(Atoi(Get(m, s_disk_count)), DisksPerController)} \cup ReachedBuses(m, l))

\* the range loop of the V1->V2 step has ended
V2RangeEnded ==
    /\ V2Entered
    /\ \/ pc = "V2.range" /\ todo = {}
       \/ pc = "V2.rebuild"
       \/ V2Succeeded
       \/ pc \in {"returned", "done"} /\ err.kind = "DiskImportOperation"

\* C14: once the loop of the V1->V2 step has ended, maxBus is the larger of
\* diskCount / 15 and the highest bus number of a SCSI controller reached
\* from a disk.<n>.key attribute, in every order of the loop, and after a
\* successful step scsi_controller_count is the text of that number plus 1.
C14_Claimed_DerivedBusCount ==
    /\ V2RangeEnded => maxBus = DerivedBusCount(entry.Attributes, devices)
    /\ V2Succeeded => is.Attributes[s_scsi_controller_count] =
                          Sprintf(DerivedBusCount(entry.Attributes, devices) + 1)

\* C15: after a successful V1->V2 step wait_for_guest_net_timeout is "-1"
\* exactly when the attribute wait_for_guest_net of the record the step was
\* entered with was "false", and is the schema default for every other
\* value, absent included (the schema default is not "-1").
C15_GuestNetTimeout ==
    V2Succeeded =>
        /\ SchemaDefault(s_wait_for_guest_net_timeout) # s_minus_one
        /\ s_wait_for_guest_net_timeout \in DOMAIN is.Attributes
        /\ is.Attributes[s_wait_for_guest_net_timeout] = s_minus_one <=>
               (s_wait_for_guest_net \in DOMAIN entry.Attributes
                  /\ entry.Attributes[s_wait_for_guest_net] = s_false)
        /\ is.Attributes[s_wait_for_guest_net_timeout] # s_minus_one =>
               is.Attributes[s_wait_for_guest_net_timeout] =
                   SchemaDefault(s_wait_for_guest_net_timeout)

C15_Witness ==
    /\ V2Succeeded
    /\ s_wait_for_guest_net \in DOMAIN entry.Attributes
    /\ entry.Attributes[s_wait_for_guest_net] = s_false
    /\ s_wait_for_guest_net \notin DOMAIN is.Attributes
    /\ is.Attributes[s_wait_for_guest_net_timeout] = s_minus_one

\* C16: within the V1->V2 step the external calls made so far are a prefix
\* of FromUUID, Properties, DiskImportOperation (each at most once, in that
\* order); a failed call is the last one made; and the record differs from
\* the one the step was entered with only once all three calls have been
\* made and the step has returned nil.
C16_ExternalCallOrder ==
    /\ IsPrefix(ExternalCalls, <<"FromUUID", "Properties", "DiskImportOperation">>)
    /\ ExternalCalls # <<>> => V2Entered
    /\ err.kind = "error fetching virtual machine" => ExternalCalls = <<"FromUUID">>
    /\ err.kind = "error fetching virtual machine properties" =>
           ExternalCalls = <<"FromUUID", "Properties">>
    /\ pc \in {"V2.Properties", "V2.range", "V2.rebuild"} =>
           Len(ExternalCalls) = (CASE pc = "V2.Properties" -> 1
                                   [] pc = "V2.range" -> 2
                                   [] pc = "V2.rebuild" -> 3)
    /\ (V2Entered /\ is # entry) =>
           /\ V2Succeeded
           /\ ExternalCalls = <<"FromUUID", "Properties", "DiskImportOperation">>

C16_Witness ==
    /\ V2Succeeded
    /\ is # entry
    /\ calls = <<"V2", "FromUUID", "Properties", "DiskImportOperation", "V2.return">>

----------------------------------------------------------------------------
(* Repeated calls after a failure, checked under SpecRetry.                 *)

\* maxBus after the loop of the V1->V2 step over the map m and the list l
MaxBusOf(m, l) ==
    LET base == GoDiv(Atoi(Get(m, s_disk_count)), DisksPerController)
    IN  Max({base} \cup {V2RangeBody(base, l, k, m[k]) : k \in DOMAIN m})

\* the record a dispatcher call yields from the record r and the list l
\* when it succeeds
Migrated(r, l) ==
    [ID |-> Get(r.Attributes, s_uuid),
     AttributesNil |-> FALSE,
     Attributes |-> NewAttributes(MaxBusOf(r.Attributes, l),
                                  GuestNetTimeout(r.Attributes))]

\* C17: a dispatcher call at version 0 or 1 that succeeds yields the same
\* record, a function of the original record and the device list alone,
\* whether it is the first call or a call repeated on the object a failed
\* call left behind; and a repeated call during which no collaborator fails
\* does succeed when the original record has a uuid (and fails with the
\* missing-identifier error of the first call when it has none).
C17_RetryConverges ==
    /\ (pc = "done" /\ os = "obj" /\ version0 \in {0, 1} /\ ~Empty(orig)
          /\ ret.err = NoErr) =>
           /\ ret.state = "obj"
           /\ is = Migrated(orig, devices)
           /\ version = 2
    /\ (pc = "done" /\ Count(calls, "retry") > 0 /\ err.kind \notin ExternalErrors) =>
           IF Get(orig.Attributes, s_uuid) = s_empty
           THEN ret = [state |-> "nil", err |-> [kind |-> "no UUID", name |-> orig.ID]]
           ELSE ret = [state |-> "obj", err |-> NoErr]

C17_Witness ==
    /\ pc = "done"
    /\ version0 = 0
    /\ Count(calls, "retry") = 1
    /\ Count(calls, "DiskImportOperation") = 2
    /\ ret = [state |-> "obj", err |-> NoErr]
    /\ is = Migrated(orig, devices)
    /\ k_disk_0_key \in DOMAIN orig.Attributes
    /\ devices # <<>>

----------------------------------------------------------------------------
(* A further property of the V0->V1 step, checked under SpecV1.             *)

\* k is a key disk.<i>.controller_type of three components
IsControllerTypeKey(k) ==
    /\ Len(k) >= Len(s_disk_dot) + 1 + Len(s_controller_type)
    /\ SubSeq(k, 1, Len(s_disk_dot)) = s_disk_dot
    /\ SubSeq(k, Len(k) - Len(s_controller_type), Len(k)) = s_dot \o s_controller_type
    /\ \A h \in (Len(s_disk_dot) + 1)..(Len(k) - Len(s_controller_type) - 1) : k[h] # "."

\* C18: the V0->V1 step returns nil and makes no external call; it leaves
\* the ID and the nil-ness of the map alone, removes no key, changes no
\* value that was not the empty string, and adds only the two flags and
\* keys disk.<i>.controller_type.
C18_Lossless ==
    V1Returned =>
        /\ err = NoErr
        /\ ExternalCalls = <<>>
        /\ is.ID = entry.ID
        /\ is.AttributesNil = entry.AttributesNil
        /\ DOMAIN entry.Attributes \subseteq DOMAIN is.Attributes
        /\ \A k \in DOMAIN entry.Attributes :
               entry.Attributes[k] # s_empty => is.Attributes[k] = entry.Attributes[k]
        /\ \A k \in (DOMAIN is.Attributes) \ (DOMAIN entry.Attributes) :
               k \in Flags \/ IsControllerTypeKey(k)

C18_Witness ==
    /\ V1Returned
    /\ Count(calls, "V1") = 1
    /\ k_disk_0_size \in DOMAIN entry.Attributes
    /\ k_disk_0_controller_type \in DOMAIN entry.Attributes
    /\ entry.Attributes[k_disk_0_controller_type] = s_ide
    /\ is.Attributes[k_disk_0_controller_type] = s_ide
    /\ k_disk_1_size \in DOMAIN entry.Attributes
    /\ DiskKey(<<"1">>, s_controller_type) \in
           (DOMAIN is.Attributes) \ (DOMAIN entry.Attributes)

----------------------------------------------------------------------------
(* The range of scsi_controller_count, checked under Spec.                  *)

\* C19 as claimed: after a successful V1->V2 step scsi_controller_count is
\* the decimal text of an integer that is at least 1, whatever disk.# held.
C19_Claimed_AtLeastOne ==
    V2Succeeded =>
        /\ IsIntText(is.Attributes[s_scsi_controller_count])
        /\ Atoi(is.Attributes[s_scsi_controller_count]) >= 1

\* C19 as amended: after a successful V1->V2 step scsi_controller_count is
\* the decimal text of the integer maxBus + 1; it is at least 1 for every
\* device list whenever disk.# is absent, unparsable or a number above -15,
\* and whenever it is less than 1, disk.# is a number of -15 or less.
C19_AtLeastOneAboveMinus15 ==
    V2Succeeded =>
        LET text == is.Attributes[s_scsi_controller_count]
            diskCnt == Atoi(Get(entry.Attributes, s_disk_count))
        IN  /\ IsIntText(text)
            /\ Sprintf(Atoi(text)) = text
            /\ Atoi(text) = maxBus + 1
            /\ diskCnt > 0 - DisksPerController => Atoi(text) >= 1
            /\ Atoi(text) < 1 => diskCnt <= 0 - DisksPerController

C19_Witness ==
    /\ V2Succeeded
    /\ Get(entry.Attributes, s_disk_count) = v_neg14
    /\ is.Attributes[s_scsi_controller_count] = <<"1">>

====
